---- MODULE Spec2Model ----
(***************************************************************************)
(* Chess melee solver (src/solver.ts): the board, the capture generation   *)
(* per piece type, the application of a capture and the recursive          *)
(* depth-first search, as a state machine over an explicit call stack and  *)
(* an object heap (pieces are objects, boards and captures hold            *)
(* references to them).                                                    *)
(***************************************************************************)
EXTENDS Integers, Sequences, FiniteSets, TLC

VARIABLES
    initial,        \* the initial layout: a sequence of piece values
    heap,           \* the Piece objects: object id -> [type, color, position]
    stack,          \* the call stack of solveRecursive
    solutionsCount, \* let solutionsCount
    deadEndCount,   \* let deadEndCount
    console,        \* what was printed: the solutions and 'Move failed' lines
    pc,             \* position of the main program
    probe           \* harness state of the single-function specifications

vars == <<initial, heap, stack, solutionsCount, deadEndCount, console, pc, probe>>

-----------------------------------------------------------------------------
(* Bounds of the model. *)

\* The largest number of pieces on an initial board.
MaxPieces == 3

-----------------------------------------------------------------------------
(* Enumerations. *)

Bishop == "B"
King == "K"
Knight == "N"
Pawn == "P"
Queen == "Q"
Rook == "R"
PieceType == {Bishop, King, Knight, Pawn, Queen, Rook}

White == "w"
Black == "b"
Color == {White, Black}

Jump == 0
Slide == 1

\* The absent position (null of calculatePosition) and the absent piece
\* (null of findPiece).
NullPosition == <<>>
NullPiece == 0

\* A position string is the pair of the character codes of its two
\* characters: 'e4' is <<101, 52>>.
CharCodeA == 96
CharCodeZero == 48
BoardSize == 8
MaxSlide == 7

Move(dx, dy, t) == [directionX |-> dx, directionY |-> dy, type |-> t]

-----------------------------------------------------------------------------
(* calculatePosition *)

\* Mutant of parseInt: the character code is taken for the digit.
parseIntCharCode(c) == c

\* parseInt of a one-character digit string, given the character's code.
parseInt(c) == c - CharCodeZero

\* Mutant of calculatePosition: the lower bounds are tested against 0.
calculatePositionFromZero(start, move, multiplier) ==
    LET x == (start[1] - CharCodeA) + multiplier * move.directionX
        y == parseInt(start[2]) + multiplier * move.directionY
    IN  IF x < 0 \/ x > BoardSize \/ y < 0 \/ y > BoardSize
        THEN NullPosition
        ELSE <<x + CharCodeA, y + CharCodeZero>>

calculatePosition(start, move, multiplier) ==
    LET x == (start[1] - CharCodeA) + multiplier * move.directionX
        y == parseInt(start[2]) + multiplier * move.directionY
    IN  IF x < 1 \/ x > BoardSize \/ y < 1 \/ y > BoardSize
        THEN NullPosition
        ELSE <<x + CharCodeA, y + CharCodeZero>>

-----------------------------------------------------------------------------
(* class Piece *)

\* Mutant of moveOptions: the pawn's table does not depend on its color.
moveOptionsOneWayPawns(type, color) ==
    IF type = Bishop THEN
        << Move(-1, -1, Slide), Move(-1, 1, Slide),
           Move(1, -1, Slide), Move(1, 1, Slide) >>
    ELSE IF type = King THEN
        << Move(-1, -1, Jump), Move(-1, 0, Jump), Move(-1, 1, Jump),
           Move(0, -1, Jump), Move(0, 1, Jump),
           Move(1, -1, Jump), Move(1, 0, Jump), Move(1, 1, Jump) >>
    ELSE IF type = Knight THEN
        << Move(-2, -1, Jump), Move(-2, 1, Jump), Move(-1, -2, Jump),
           Move(-1, 2, Jump), Move(1, -2, Jump), Move(1, 2, Jump),
           Move(2, -1, Jump), Move(2, 1, Jump) >>
    ELSE IF type = Pawn THEN
        << Move(-1, 1, Jump), Move(1, 1, Jump) >>
    ELSE IF type = Queen THEN
        << Move(-1, -1, Slide), Move(-1, 1, Slide),
           Move(1, -1, Slide), Move(1, 1, Slide),
           Move(-1, 0, Slide), Move(0, -1, Slide),
           Move(0, 1, Slide), Move(1, 0, Slide) >>
    ELSE IF type = Rook THEN
        << Move(-1, 0, Slide), Move(0, -1, Slide),
           Move(0, 1, Slide), Move(1, 0, Slide) >>
    ELSE << >>

\* The move table the constructor binds to a piece.
moveOptions(type, color) ==
    IF type = Bishop THEN
        << Move(-1, -1, Slide), Move(-1, 1, Slide),
           Move(1, -1, Slide), Move(1, 1, Slide) >>
    ELSE IF type = King THEN
        << Move(-1, -1, Jump), Move(-1, 0, Jump), Move(-1, 1, Jump),
           Move(0, -1, Jump), Move(0, 1, Jump),
           Move(1, -1, Jump), Move(1, 0, Jump), Move(1, 1, Jump) >>
    ELSE IF type = Knight THEN
        << Move(-2, -1, Jump), Move(-2, 1, Jump), Move(-1, -2, Jump),
           Move(-1, 2, Jump), Move(1, -2, Jump), Move(1, 2, Jump),
           Move(2, -1, Jump), Move(2, 1, Jump) >>
    ELSE IF type = Pawn /\ color = White THEN
        << Move(-1, 1, Jump), Move(1, 1, Jump) >>
    ELSE IF type = Pawn /\ color = Black THEN
        << Move(-1, -1, Jump), Move(1, -1, Jump) >>
    ELSE IF type = Queen THEN
        << Move(-1, -1, Slide), Move(-1, 1, Slide),
           Move(1, -1, Slide), Move(1, 1, Slide),
           Move(-1, 0, Slide), Move(0, -1, Slide),
           Move(0, 1, Slide), Move(1, 0, Slide) >>
    ELSE IF type = Rook THEN
        << Move(-1, 0, Slide), Move(0, -1, Slide),
           Move(0, 1, Slide), Move(1, 0, Slide) >>
    ELSE << >>

\* new Piece( type, color, position )
Piece(type, color, position) ==
    [type |-> type, color |-> color, position |-> position]

\* Piece.clone: a new object with the same values.
PieceClone(p) == Piece(p.type, p.color, p.position)

-----------------------------------------------------------------------------
(* class Board: findPiece *)

\* The forEach of findPiece from index i on, result being the match so far:
\* every match overwrites the result.
RECURSIVE findPieceLoop(_, _, _, _, _)
findPieceLoop(h, pieces, position, i, result) ==
    IF i > Len(pieces) THEN result
    ELSE findPieceLoop(h, pieces, position, i + 1,
            IF h[pieces[i]].position = position THEN pieces[i] ELSE result)

findPiece(h, pieces, position) ==
    findPieceLoop(h, pieces, position, 1, NullPiece)

-----------------------------------------------------------------------------
(* Piece.getPossibleCaptures *)

Capture(attacker, target) == [attacker |-> attacker, target |-> target]

\* Mutant of jumpCaptures: the color of the target is not looked at.
jumpCapturesAnyColor(h, pieces, self, move) ==
    LET newPosition == calculatePosition(h[self].position, move, 1)
    IN  IF newPosition # NullPosition
        THEN LET target == findPiece(h, pieces, newPosition)
             IN  IF target # NullPiece
                 THEN << Capture(self, target) >>
                 ELSE << >>
        ELSE << >>

\* The captures of one jump move.
jumpCaptures(h, pieces, self, move) ==
    LET newPosition == calculatePosition(h[self].position, move, 1)
    IN  IF newPosition # NullPosition
        THEN LET target == findPiece(h, pieces, newPosition)
             IN  IF target # NullPiece /\ h[target].color # h[self].color
                 THEN << Capture(self, target) >>
                 ELSE << >>
        ELSE << >>

\* Mutant of slideCaptures: the loop stops only at a piece of the other
\* color, a piece of the same color is passed over.
RECURSIVE slideCapturesThroughAllies(_, _, _, _, _)
slideCapturesThroughAllies(h, pieces, self, move, i) ==
    IF i > MaxSlide THEN << >>
    ELSE LET newPosition == calculatePosition(h[self].position, move, i)
         IN  IF newPosition # NullPosition
             THEN LET target == findPiece(h, pieces, newPosition)
                  IN  IF target # NullPiece /\ h[target].color # h[self].color
                      THEN << Capture(self, target) >>
                      ELSE slideCapturesThroughAllies(h, pieces, self, move, i + 1)
             ELSE slideCapturesThroughAllies(h, pieces, self, move, i + 1)

\* The for loop of one slide move, from step i on.
RECURSIVE slideCaptures(_, _, _, _, _)
slideCaptures(h, pieces, self, move, i) ==
    IF i > MaxSlide THEN << >>
    ELSE LET newPosition == calculatePosition(h[self].position, move, i)
         IN  IF newPosition # NullPosition
             THEN LET target == findPiece(h, pieces, newPosition)
                  IN  IF target # NullPiece
                      THEN IF h[target].color # h[self].color
                           THEN << Capture(self, target) >>
                           ELSE << >>
                      ELSE slideCaptures(h, pieces, self, move, i + 1)
             ELSE slideCaptures(h, pieces, self, move, i + 1)

\* The forEach over the move options, from option m on.
RECURSIVE capturesFrom(_, _, _, _, _)
capturesFrom(h, pieces, self, options, m) ==
    IF m > Len(options) THEN << >>
    ELSE (IF options[m].type = Jump
          THEN jumpCaptures(h, pieces, self, options[m])
          ELSE IF options[m].type = Slide
          THEN slideCaptures(h, pieces, self, options[m], 1)
          ELSE << >>)
         \o capturesFrom(h, pieces, self, options, m + 1)

getPossibleCaptures(h, pieces, self) ==
    capturesFrom(h, pieces, self,
                 moveOptions(h[self].type, h[self].color), 1)

-----------------------------------------------------------------------------
(* class Board: clone and applyCapture *)

\* Mutant of BoardClone: a new piece list of the same Piece objects.
BoardCloneShallow(h, pieces) == [heap |-> h, pieces |-> pieces]

\* Board.clone: a new piece list of new Piece objects, allocated at the end
\* of the heap.
BoardClone(h, pieces) ==
    [heap   |-> h \o [k \in 1..Len(pieces) |-> PieceClone(h[pieces[k]])],
     pieces |-> [k \in 1..Len(pieces) |-> Len(h) + k]]

\* Mutant of removeTarget: no piece is spliced out.
removeTargetNone(h, pieces, capture, i) == pieces

\* Mutant of removeTarget: the first piece of the list is spliced out,
\* whatever its position.
removeTargetFirst(h, pieces, capture, i) == SubSeq(pieces, 2, Len(pieces))

\* The first loop of applyCapture from index i on: splice out the first piece
\* at the target's position.
RECURSIVE removeTarget(_, _, _, _)
removeTarget(h, pieces, capture, i) ==
    IF i > Len(pieces) THEN pieces
    ELSE IF h[pieces[i]].position = h[capture.target].position
         THEN SubSeq(pieces, 1, i - 1) \o SubSeq(pieces, i + 1, Len(pieces))
         ELSE removeTarget(h, pieces, capture, i + 1)

\* Mutant of setAttackerPosition: the two positions of the capture are
\* exchanged, the pieces at the target's position get the attacker's.
RECURSIVE setAttackerPositionSwapped(_, _, _, _)
setAttackerPositionSwapped(h, pieces, capture, i) ==
    IF i > Len(pieces) THEN h
    ELSE setAttackerPositionSwapped(
            IF h[pieces[i]].position = h[capture.target].position
            THEN [h EXCEPT ![pieces[i]].position = h[capture.attacker].position]
            ELSE h,
            pieces, capture, i + 1)

\* The forEach of applyCapture from index i on: every piece at the attacker's
\* position gets the target's position. The heap is threaded through, since
\* the attacker object may be one of the pieces written.
RECURSIVE setAttackerPosition(_, _, _, _)
setAttackerPosition(h, pieces, capture, i) ==
    IF i > Len(pieces) THEN h
    ELSE setAttackerPosition(
            IF h[pieces[i]].position = h[capture.attacker].position
            THEN [h EXCEPT ![pieces[i]].position = h[capture.target].position]
            ELSE h,
            pieces, capture, i + 1)

\* Mutant of applyCapture: the target is not spliced out and the count is
\* not looked at.
applyCaptureKeepsTarget(h, pieces, capture) ==
    [heap   |-> setAttackerPosition(h, pieces, capture, 1),
     pieces |-> pieces,
     result |-> TRUE]

applyCapture(h, pieces, capture) ==
    LET removed == removeTarget(h, pieces, capture, 1)
    IN  [heap   |-> setAttackerPosition(h, removed, capture, 1),
         pieces |-> removed,
         result |-> (Len(removed) = Len(pieces) - 1)]

-----------------------------------------------------------------------------
(* printHistory and the console *)

\* One printed line per capture: type, color and position of the attacker and
\* of the target, read from the objects when the history is printed.
printHistory(h, history) ==
    [k \in 1..Len(history) |->
        [attacker |-> h[history[k].attacker],
         target   |-> h[history[k].target]]]

Solved(lines) == [text |-> "Solved", lines |-> lines]
MoveFailed == [text |-> "Move failed", lines |-> << >>]

-----------------------------------------------------------------------------
(* Initial layouts *)

\* Position strings by file and rank.
Square(file, rank) == <<file + CharCodeA, rank + CharCodeZero>>

\* The pieces initial boards are made of: the layout of the source
\* (solver.ts lines 303-316), two kings and a
\* black rook.
Pool ==
    { Piece(Bishop, Black, Square(5, 4)),   \* e4
      Piece(Bishop, Black, Square(6, 2)),   \* f2
      Piece(Bishop, White, Square(6, 3)),   \* f3
      Piece(Knight, White, Square(4, 6)),   \* d6
      Piece(Knight, White, Square(6, 7)),   \* f7
      Piece(Knight, Black, Square(7, 3)),   \* g3
      Piece(Pawn, White, Square(4, 3)),     \* d3
      Piece(Pawn, Black, Square(5, 5)),     \* e5
      Piece(Pawn, White, Square(7, 2)),     \* g2
      Piece(Pawn, Black, Square(8, 3)),     \* h3
      Piece(Queen, Black, Square(3, 2)),    \* c2
      Piece(Rook, White, Square(7, 1)),     \* g1
      Piece(King, White, Square(5, 4)),     \* e4
      Piece(King, Black, Square(4, 4)),     \* d4
      Piece(Rook, Black, Square(4, 5)) }    \* d5

UniquePositions(h, pieces) ==
    \A i, j \in 1..Len(pieces) :
        i # j => h[pieces[i]].position # h[pieces[j]].position

\* Every ordered board of at most MaxPieces pieces of the pool, no two on
\* one square.
Layouts ==
    { l \in UNION { [1..n -> Pool] : n \in 0..MaxPieces } :
        UniquePositions(l, [k \in 1..Len(l) |-> k]) }

NoProbe == [op |-> "none"]

-----------------------------------------------------------------------------
(* The search: Board.solve and Board.solveRecursive *)

Frame(pieces, history, turnColor, base) ==
    [pieces       |-> pieces,       \* this.pieces
     history      |-> history,
     turnColor    |-> turnColor,
     movePossible |-> FALSE,
     index        |-> 0,            \* pieces visited by the outer forEach
     captures     |-> << >>,        \* captures of the piece being visited
     next         |-> 1,            \* next capture of the inner forEach
     base         |-> base]         \* heap size before this board was cloned

\* Mutant of nextColor: the turn is not passed on.
nextColorSame(turnColor) == turnColor

\* The color to move after turnColor has captured.
nextColor(turnColor) == IF turnColor = White THEN Black ELSE White

Top == stack[Len(stack)]
Pop == SubSeq(stack, 1, Len(stack) - 1)
SetTop(f) == [stack EXCEPT ![Len(stack)] = f]

Init ==
    /\ initial \in Layouts
    /\ heap = initial
    /\ stack = << >>
    /\ solutionsCount = 0
    /\ deadEndCount = 0
    /\ console = << >>
    /\ pc = "solve"
    /\ probe = NoProbe

\* board.solve(): the root invocation, White to move, empty history.
solve ==
    /\ pc = "solve"
    /\ stack' = << Frame([k \in 1..Len(heap) |-> k], << >>, White, 0) >>
    /\ pc' = "search"
    /\ UNCHANGED <<initial, heap, solutionsCount, deadEndCount, console, probe>>

\* solveRecursive on a board of one piece: print the history, count it, return.
solveRecursiveSolved ==
    /\ pc = "search" /\ stack # << >>
    /\ Len(Top.pieces) = 1
    /\ console' = Append(console, Solved(printHistory(heap, Top.history)))
    /\ solutionsCount' = solutionsCount + 1
    /\ stack' = Pop
    /\ heap' = SubSeq(heap, 1, Top.base)
    /\ UNCHANGED <<initial, deadEndCount, pc, probe>>

\* One step of the outer forEach: visit the next piece and, if it is of the
\* turn color, get its captures.
solveRecursivePiece ==
    /\ pc = "search" /\ stack # << >>
    /\ Len(Top.pieces) # 1
    /\ Top.next > Len(Top.captures)
    /\ Top.index < Len(Top.pieces)
    /\ LET piece == Top.pieces[Top.index + 1]
           captures == IF heap[piece].color = Top.turnColor
                       THEN getPossibleCaptures(heap, Top.pieces, piece)
                       ELSE << >>
       IN  stack' = SetTop([Top EXCEPT
                        !.index = Top.index + 1,
                        !.captures = captures,
                        !.next = 1,
                        !.movePossible = Top.movePossible \/ Len(captures) > 0])
    /\ UNCHANGED <<initial, heap, solutionsCount, deadEndCount, console, pc, probe>>

\* One step of the inner forEach: clone the board, apply the capture on the
\* clone and recurse on it, or print 'Move failed'.
solveRecursiveCapture ==
    /\ pc = "search" /\ stack # << >>
    /\ Len(Top.pieces) # 1
    /\ Top.next <= Len(Top.captures)
    /\ LET capture == Top.captures[Top.next]
           newBoard == BoardClone(heap, Top.pieces)
           applied == applyCapture(newBoard.heap, newBoard.pieces, capture)
           caller == [Top EXCEPT !.next = Top.next + 1]
       IN  IF applied.result
           THEN /\ stack' = Append(SetTop(caller),
                                Frame(applied.pieces,
                                      Append(Top.history, capture),
                                      nextColor(Top.turnColor), Len(heap)))
                /\ heap' = applied.heap
                /\ console' = console
           ELSE /\ stack' = SetTop(caller)
                /\ heap' = SubSeq(applied.heap, 1, Len(heap))
                /\ console' = Append(console, MoveFailed)
    /\ UNCHANGED <<initial, solutionsCount, deadEndCount, pc, probe>>

\* The end of solveRecursive on a board of more or fewer pieces than one:
\* count a dead end if no piece visited had a capture, and return.
solveRecursiveReturn ==
    /\ pc = "search" /\ stack # << >>
    /\ Len(Top.pieces) # 1
    /\ Top.next > Len(Top.captures)
    /\ Top.index = Len(Top.pieces)
    /\ deadEndCount' = IF ~Top.movePossible THEN deadEndCount + 1
                       ELSE deadEndCount
    /\ stack' = Pop
    /\ heap' = SubSeq(heap, 1, Top.base)
    /\ UNCHANGED <<initial, solutionsCount, console, pc, probe>>

\* board.solve() has returned: the two counts are printed.
report ==
    /\ pc = "search" /\ stack = << >>
    /\ pc' = "done"
    /\ UNCHANGED <<initial, heap, stack, solutionsCount, deadEndCount, console, probe>>

Next ==
    \/ solve
    \/ solveRecursiveSolved
    \/ solveRecursivePiece
    \/ solveRecursiveCapture
    \/ solveRecursiveReturn
    \/ report

Spec == Init /\ [][Next]_vars

-----------------------------------------------------------------------------
(* The rules of the puzzle, stated on boards as sets of piece values, by     *)
(* coordinates. The claims below compare the search with them.               *)

FileOf(position) == position[1] - 96
RankOf(position) == position[2] - 48
Abs(n) == IF n < 0 THEN -n ELSE n
Opposite(color) == IF color = White THEN Black ELSE White

\* The piece values of a board of the heap, as a sequence and as a set.
BoardValues(h, pieces) == [k \in 1..Len(pieces) |-> h[pieces[k]]]
SetOf(seq) == { seq[k] : k \in 1..Len(seq) }

\* The steps a piece of this type and color may take.
ChessSteps(type, color) ==
    { d \in (-2..2) \X (-2..2) :
        CASE type = Bishop -> Abs(d[1]) = 1 /\ Abs(d[2]) = 1
          [] type = Rook   -> Abs(d[1]) + Abs(d[2]) = 1
          [] type = Queen  -> Abs(d[1]) <= 1 /\ Abs(d[2]) <= 1 /\ d # <<0, 0>>
          [] type = King   -> Abs(d[1]) <= 1 /\ Abs(d[2]) <= 1 /\ d # <<0, 0>>
          [] type = Knight -> {Abs(d[1]), Abs(d[2])} = {1, 2}
          [] type = Pawn   -> Abs(d[1]) = 1
                              /\ d[2] = (IF color = White THEN 1 ELSE -1) }

Slides(type) == type \in {Bishop, Queen, Rook}

OccupiedAt(B, x, y) ==
    \E q \in B : FileOf(q.position) = x /\ RankOf(q.position) = y

\* a may capture t on board B: opposite colors, t a step away, or for a
\* sliding piece any number of steps away with only empty squares between.
LegalCapture(B, a, t) ==
    /\ a \in B /\ t \in B
    /\ a.color # t.color
    /\ \E d \in ChessSteps(a.type, a.color) :
       \E k \in 1..(IF Slides(a.type) THEN 7 ELSE 1) :
          /\ FileOf(t.position) = FileOf(a.position) + k * d[1]
          /\ RankOf(t.position) = RankOf(a.position) + k * d[2]
          /\ \A j \in 1..(k - 1) :
                ~OccupiedAt(B, FileOf(a.position) + j * d[1],
                               RankOf(a.position) + j * d[2])

LegalCaptures(B, color) ==
    { c \in [attacker : B, target : B] :
        c.attacker.color = color /\ LegalCapture(B, c.attacker, c.target) }

AfterCapture(B, a, t) ==
    (B \ {a, t}) \cup { [a EXCEPT !.position = t.position] }

\* Every sequence of legal captures, colors alternating from turn on, that
\* leaves exactly one piece of B.
RECURSIVE LegalSequences(_, _)
LegalSequences(B, turn) ==
    IF Cardinality(B) = 1 THEN { << >> }
    ELSE UNION { { << c >> \o s :
                     s \in LegalSequences(AfterCapture(B, c.attacker, c.target),
                                          Opposite(turn)) } :
                 c \in LegalCaptures(B, turn) }

\* The histories printed so far.
Reported == SelectSeq(console, LAMBDA e : e.text = "Solved")
ReportedLines == [k \in 1..Len(Reported) |-> Reported[k].lines]

-----------------------------------------------------------------------------
\* C1: when the search has finished, the histories it printed are exactly the
\* legal capture sequences that start with White, alternate colors and leave
\* one piece of the initial board, each printed once, and solutionsCount is
\* their number.
C1_Completeness ==
    pc = "done" =>
        LET expected == LegalSequences(SetOf(initial), White)
        IN  /\ SetOf(ReportedLines) = expected
            /\ \A i, j \in 1..Len(ReportedLines) :
                    i # j => ReportedLines[i] # ReportedLines[j]
            /\ solutionsCount = Cardinality(expected)

\* A finished search of a board with several solutions.
C1_Witness ==
    pc = "done" /\ solutionsCount >= 2

\* Replaying lines k.. on board B: every capture is legal on the board it is
\* made on, and one piece is left at the end.
RECURSIVE ReplayLegal(_, _, _)
ReplayLegal(B, lines, k) ==
    IF k > Len(lines) THEN Cardinality(B) = 1
    ELSE /\ LegalCapture(B, lines[k].attacker, lines[k].target)
         /\ ReplayLegal(AfterCapture(B, lines[k].attacker, lines[k].target),
                        lines, k + 1)

\* C2: every counted solution was printed, and every printed history has
\* N-1 captures for an initial board of N pieces, each legal on the board
\* reached by replaying the ones before it, and leaves exactly one piece.
C2_Soundness ==
    /\ solutionsCount = Len(ReportedLines)
    /\ \A s \in 1..Len(ReportedLines) :
          /\ Len(ReportedLines[s]) = Len(initial) - 1
          /\ ReplayLegal(SetOf(initial), ReportedLines[s], 1)

\* A solution of two captures has been counted.
C2_Witness ==
    /\ solutionsCount >= 1
    /\ \E s \in 1..Len(ReportedLines) : Len(ReportedLines[s]) = 2

ColorAtDepth(d) == IF d % 2 = 0 THEN White ELSE Black

\* C3: in every invocation of solveRecursive the k-th capture of the history
\* was made by White for odd k and by Black for even k, the recursion depth
\* is the length of the history, and the side to move is White at even depth
\* and Black at odd depth; the printed histories alternate the same way.
C3_TurnAlternation ==
    /\ \A i \in 1..Len(stack) :
          /\ Len(stack[i].history) = i - 1
          /\ stack[i].turnColor = ColorAtDepth(i - 1)
          /\ \A k \in 1..Len(stack[i].history) :
                heap[stack[i].history[k].attacker].color = ColorAtDepth(k - 1)
    /\ \A s \in 1..Len(ReportedLines) :
          \A k \in 1..Len(ReportedLines[s]) :
             ReportedLines[s][k].attacker.color = ColorAtDepth(k - 1)

\* An invocation at depth two, after a White and a Black capture.
C3_Witness ==
    /\ Len(stack) = 3
    /\ stack[3].turnColor = White
    /\ Len(stack[3].history) = 2

-----------------------------------------------------------------------------
\* One of a's move options lands on t's square (a slide option in one to
\* seven steps).
LandsOn(a, t) ==
    LET options == moveOptions(a.type, a.color)
    IN  \E m \in 1..Len(options) :
        \E k \in 1..(IF options[m].type = Slide THEN MaxSlide ELSE 1) :
            calculatePosition(a.position, options[m], k) = t.position

TwoOpposite == Len(initial) = 2 /\ initial[1].color # initial[2].color
WhiteOfTwo == IF initial[1].color = White THEN initial[1] ELSE initial[2]
BlackOfTwo == IF initial[1].color = White THEN initial[2] ELSE initial[1]

\* C4 as stated: on a board of two pieces of opposite colors where either
\* piece has a move landing on the other's square, the search ends with one
\* solution and no dead end, and the one printed history has one capture,
\* between the two pieces.
C4_AsStated ==
    (pc = "done" /\ TwoOpposite
        /\ (LandsOn(initial[1], initial[2]) \/ LandsOn(initial[2], initial[1])))
    => /\ solutionsCount = 1
       /\ deadEndCount = 0
       /\ Len(ReportedLines) = 1
       /\ Len(ReportedLines[1]) = 1
       /\ {ReportedLines[1][1].attacker, ReportedLines[1][1].target}
            = {initial[1], initial[2]}

\* C4 amended: on a board of two pieces of opposite colors where the White
\* piece has a move landing on the Black piece's square, the search ends with
\* one solution and no dead end, and the one printed history has one capture,
\* of the Black piece by the White piece.
C4_WhiteCaptures ==
    (pc = "done" /\ TwoOpposite /\ LandsOn(WhiteOfTwo, BlackOfTwo))
    => /\ solutionsCount = 1
       /\ deadEndCount = 0
       /\ ReportedLines
            = << << [attacker |-> WhiteOfTwo, target |-> BlackOfTwo] >> >>

\* A finished search of two pieces where White could capture.
C4_Witness ==
    /\ pc = "done" /\ TwoOpposite /\ LandsOn(WhiteOfTwo, BlackOfTwo)
    /\ solutionsCount = 1

-----------------------------------------------------------------------------
\* The running invocation, its board as a set of piece values, and whether
\* the side to move has a legal capture on it.
Running == pc = "search" /\ stack # << >>
TopBoard == SetOf(BoardValues(heap, Top.pieces))
NoLegalCaptureAtTop == LegalCaptures(TopBoard, Top.turnColor) = {}

\* C5: while an invocation on a board of at least two pieces, where the side
\* to move has no legal capture, is running, no step makes a recursive call
\* or changes solutionsCount, and deadEndCount is incremented by one by the
\* step that returns from it and by no other.
C5_DeadEndCounting ==
    [][ (Running /\ Len(Top.pieces) >= 2 /\ NoLegalCaptureAtTop)
        => /\ Len(stack') <= Len(stack)
           /\ solutionsCount' = solutionsCount
           /\ deadEndCount' = deadEndCount
                + (IF Len(stack') < Len(stack) THEN 1 ELSE 0) ]_vars

\* A dead end has been counted in a nested invocation, whose caller goes on.
C5_Witness ==
    Running /\ deadEndCount >= 1 /\ Top.index >= 1

\* C6 as stated: deadEndCount only changes in an invocation whose board has
\* more than one piece and whose side to move has no legal capture.
C6_AsStated ==
    [][ deadEndCount' # deadEndCount
        => (Running /\ Len(Top.pieces) > 1 /\ NoLegalCaptureAtTop) ]_vars

-----------------------------------------------------------------------------
\* C7: on the board of every invocation of solveRecursive no two pieces have
\* the same position.
C7_UniquePositions ==
    \A i \in 1..Len(stack) : UniquePositions(heap, stack[i].pieces)

\* An invocation on a board made by clone and applyCapture that still has
\* several pieces.
C7_Witness ==
    Len(stack) >= 2 /\ Len(Top.pieces) >= 2

-----------------------------------------------------------------------------
\* C9: every step of the inner forEach makes a recursive call, and 'Move
\* failed' is never printed.
C9_NoMoveFailed ==
    [][ /\ (Running /\ Len(Top.pieces) # 1 /\ Top.next <= Len(Top.captures))
            => Len(stack') = Len(stack) + 1
        /\ \A k \in 1..Len(console') : console'[k] # MoveFailed ]_vars

\* A capture of the root invocation has been applied and recursed into.
C9_Witness ==
    Len(stack) = 2 /\ stack[1].next = 2 /\ console = << >>

-----------------------------------------------------------------------------
\* C10: no step changes the board of an invocation that is on the stack
\* before and after it: its piece list and the type, color and position of
\* each of its pieces stay the same.
C10_BranchIsolation ==
    [][ \A i \in 1..Len(stack) :
            i <= Len(stack')
            => /\ stack'[i].pieces = stack[i].pieces
               /\ BoardValues(heap', stack'[i].pieces)
                    = BoardValues(heap, stack[i].pieces) ]_vars

\* An invocation whose first capture has been explored and whose second
\* capture is about to be applied.
C10_Witness ==
    Running /\ Top.next = 2 /\ Len(Top.captures) >= 2

-----------------------------------------------------------------------------
(* applyCapture alone: one call on a board of unique positions, with any    *)
(* capture between two of its squares. The attacker and target objects of   *)
(* the capture are the board's own pieces, or the pieces of the board it     *)
(* was cloned from (as in the search).                                       *)

InitApply ==
    /\ initial \in { l \in Layouts : Len(l) >= 2 }
    /\ LET own == [k \in 1..Len(initial) |-> k]
           cloned == BoardClone(initial, own)
       IN  /\ heap = cloned.heap
           /\ \E pieces \in {own, cloned.pieces} :
              \E a, t \in 1..Len(initial) :
                 /\ a # t
                 /\ probe = [op      |-> "applyCapture",
                             before  |-> pieces,
                             pieces  |-> pieces,
                             capture |-> Capture(a, t),
                             done    |-> FALSE,
                             result  |-> FALSE]
    /\ stack = << >>
    /\ solutionsCount = 0
    /\ deadEndCount = 0
    /\ console = << >>
    /\ pc = "probe"

\* board.applyCapture( capture )
applyCaptureCall ==
    /\ probe.op = "applyCapture" /\ ~probe.done
    /\ LET applied == applyCapture(heap, probe.pieces, probe.capture)
       IN  /\ heap' = applied.heap
           /\ probe' = [probe EXCEPT !.pieces = applied.pieces,
                                     !.result = applied.result,
                                     !.done = TRUE]
    /\ UNCHANGED <<initial, stack, solutionsCount, deadEndCount, console, pc>>

NextApply == applyCaptureCall

SpecApply == InitApply /\ [][NextApply]_vars

\* C8: after applyCapture on a board of unique positions, with a capture
\* between two occupied squares, the call has returned true; the board has
\* one piece fewer: its list is the list before without the piece that was on
\* the target's square; the piece that was on the attacker's square has the
\* target's former position and its type and color; no piece is on the
\* attacker's former square; every other piece is as before.
C8_CaptureCardinality ==
    (probe.op = "applyCapture" /\ probe.done) =>
        LET a == probe.capture.attacker
            t == probe.capture.target
            before == probe.before
        IN  /\ probe.result = TRUE
            /\ Len(probe.pieces) = Len(before) - 1
            /\ probe.pieces = SelectSeq(before, LAMBDA id : id # before[t])
            /\ heap[before[a]]
                 = [initial[a] EXCEPT !.position = initial[t].position]
            /\ \A k \in 1..Len(probe.pieces) :
                  /\ heap[probe.pieces[k]].position # initial[a].position
                  /\ heap[probe.pieces[k]].position = initial[t].position
                        => probe.pieces[k] = before[a]
            /\ \A k \in 1..Len(before) :
                  k \notin {a, t} => heap[before[k]] = initial[k]

\* A capture has been applied on a board of three pieces, by a piece that
\* comes after its target in the list.
C8_Witness ==
    /\ probe.op = "applyCapture" /\ probe.done
    /\ Len(initial) = 3
    /\ probe.capture.attacker > probe.capture.target

-----------------------------------------------------------------------------
(* The program is one thread that runs until board.solve() has returned and *)
(* the counts are printed: a step that can be taken is taken.               *)

\* The initial boards of the fair specification: the pieces of the pool
\* around e4.
FairPool ==
    { q \in Pool :
        q.position \in { Square(5, 4), Square(6, 3), Square(4, 3),
                         Square(4, 4), Square(5, 5), Square(7, 2),
                         Square(8, 3) } }

InitFair ==
    /\ Init
    /\ SetOf(initial) \subseteq FairPool

SpecFair == InitFair /\ [][Next]_vars /\ WF_vars(Next)

\* C11: the search terminates; every invocation but the root runs on a board
\* of exactly one piece fewer than its caller's; and for an initial board of
\* N >= 1 pieces the recursion depth, which is the length of the history, is
\* at most N-1.
C11_Termination ==
    /\ [](\A i \in 1..Len(stack) :
            /\ i > 1 => Len(stack[i].pieces) = Len(stack[i - 1].pieces) - 1
            /\ Len(initial) >= 1 =>
                  /\ Len(stack[i].history) <= Len(initial) - 1
                  /\ i - 1 <= Len(initial) - 1)
    /\ <>(pc = "done")

\* The search of a board of three pieces has ended after going two captures
\* deep.
C11_Witness ==
    pc = "done" /\ Len(initial) = 3 /\ solutionsCount >= 1

-----------------------------------------------------------------------------
\* The number of dead ends of the puzzle on the set B of pieces with turn to
\* move: the boards reached by legal captures, colors alternating, that are
\* not solved and on which the side to move has no legal capture, counted
\* once per sequence of captures leading to them.
RECURSIVE DeadEndNodes(_, _)
RECURSIVE DeadEndSum(_, _, _)
DeadEndSum(B, turn, captures) ==
    IF captures = {} THEN 0
    ELSE LET c == CHOOSE x \in captures : TRUE
         IN  DeadEndNodes(AfterCapture(B, c.attacker, c.target), Opposite(turn))
             + DeadEndSum(B, turn, captures \ {c})
DeadEndNodes(B, turn) ==
    IF Cardinality(B) = 1 THEN 0
    ELSE IF LegalCaptures(B, turn) = {} THEN 1
    ELSE DeadEndSum(B, turn, LegalCaptures(B, turn))

\* C12: the results of a finished search are determined by the set of the
\* initial pieces, whatever their order in the list: solutionsCount,
\* deadEndCount and the set of printed histories are the values the rules
\* give for that set, so two boards of the same pieces in different orders
\* end with the same counts and the same set of solutions.
C12_OrderIndependence ==
    pc = "done" =>
        LET pieces == SetOf(initial)
        IN  /\ solutionsCount = Cardinality(LegalSequences(pieces, White))
            /\ deadEndCount = DeadEndNodes(pieces, White)
            /\ SetOf(ReportedLines) = LegalSequences(pieces, White)

\* A finished search with a solution and a dead end, of a board of three
\* pieces that lists a Black piece first and a White piece last.
C12_Witness ==
    /\ pc = "done" /\ Len(initial) = 3
    /\ solutionsCount >= 1 /\ deadEndCount >= 1
    /\ initial[1].color = Black /\ initial[3].color = White

-----------------------------------------------------------------------------
\* The step is a recursive call of the running invocation.
Pushes == Running /\ Len(stack') = Len(stack) + 1

\* C13: the positions a history entry shows are those of the time of its
\* capture. When a capture is applied and recursed into, the new entry's
\* attacker still shows the square it stood on on the caller's board, its
\* target shows the square captured on, and the piece of the new board that
\* stands on that square has the attacker's type and color; and no step
\* changes what the history of an invocation that stays on the stack prints.
\* A printed solution is the history of the invocation as it prints then.
C13_ReportedSquares ==
    [][ /\ \A i \in 1..Len(stack) :
              i <= Len(stack')
              => printHistory(heap', stack'[i].history)
                    = printHistory(heap, stack[i].history)
        /\ Pushes =>
              LET child == stack'[Len(stack')]
                  entry == child.history[Len(child.history)]
                  onSquare == { id \in SetOf(child.pieces) :
                                  heap'[id].position
                                     = heap'[entry.target].position }
              IN  /\ entry.attacker \in SetOf(Top.pieces)
                  /\ entry.target \in SetOf(Top.pieces)
                  /\ heap'[entry.attacker] = heap[entry.attacker]
                  /\ heap'[entry.target] = heap[entry.target]
                  /\ Cardinality(onSquare) = 1
                  /\ \A id \in onSquare :
                        /\ heap'[id].type = heap[entry.attacker].type
                        /\ heap'[id].color = heap[entry.attacker].color
                  /\ \A id \in SetOf(child.pieces) :
                        heap'[id].position # heap[entry.attacker].position
        /\ Len(console') > Len(console) =>
              console'[Len(console')].lines = printHistory(heap, Top.history)
      ]_vars

\* A second capture has been applied below a first one, whose history entry
\* is still on the stack.
C13_Witness ==
    /\ Len(stack) = 3
    /\ heap[stack[3].history[1].attacker].position
         # heap[stack[3].history[2].target].position

-----------------------------------------------------------------------------
(* getPossibleCaptures alone: one call for one piece of a board of unique   *)
(* positions. The boards are made of the pool and of pieces in the corners.  *)

ProbePool ==
    Pool \cup
    { Piece(Knight, White, Square(1, 1)),   \* a1
      Piece(Pawn, Black, Square(2, 2)),     \* b2
      Piece(Pawn, Black, Square(2, 3)),     \* b3
      Piece(Rook, Black, Square(1, 3)),     \* a3
      Piece(King, White, Square(8, 8)),     \* h8
      Piece(Pawn, Black, Square(7, 7)) }    \* g7

ProbeLayouts ==
    { l \in UNION { [1..n -> ProbePool] : n \in 1..MaxPieces } :
        UniquePositions(l, [k \in 1..Len(l) |-> k]) }

InitCaptures ==
    /\ initial \in ProbeLayouts
    /\ heap = initial
    /\ \E self \in 1..Len(initial) :
          probe = [op     |-> "getPossibleCaptures",
                   self   |-> self,
                   done   |-> FALSE,
                   result |-> << >>]
    /\ stack = << >>
    /\ solutionsCount = 0
    /\ deadEndCount = 0
    /\ console = << >>
    /\ pc = "probe"

\* piece.getPossibleCaptures( board )
getPossibleCapturesCall ==
    /\ probe.op = "getPossibleCaptures" /\ ~probe.done
    /\ probe' = [probe EXCEPT
                    !.result = getPossibleCaptures(
                                  heap, [k \in 1..Len(heap) |-> k], probe.self),
                    !.done = TRUE]
    /\ UNCHANGED <<initial, heap, stack, solutionsCount, deadEndCount, console, pc>>

NextCaptures == getPossibleCapturesCall

SpecCaptures == InitCaptures /\ [][NextCaptures]_vars

\* The call has returned for a piece of one of the given types.
CapturesOf(types) ==
    /\ probe.op = "getPossibleCaptures" /\ probe.done
    /\ initial[probe.self].type \in types

\* The piece the call was made for, its file and rank, and the values of the
\* targets it returned, in order.
Self == initial[probe.self]
SelfX == FileOf(Self.position)
SelfY == RankOf(Self.position)
Targets == [j \in 1..Len(probe.result) |-> heap[probe.result[j].target]]

\* The returned captures whose target is k steps of d away, k in 1..7.
InDirection(d) ==
    { j \in 1..Len(Targets) :
        \E k \in 1..7 :
            /\ FileOf(Targets[j].position) = SelfX + k * d[1]
            /\ RankOf(Targets[j].position) = SelfY + k * d[2] }

\* The steps of d at which a square of the board is occupied.
Ray(d) ==
    { k \in 1..7 : OccupiedAt(SetOf(initial), SelfX + k * d[1], SelfY + k * d[2]) }

PieceAt(x, y) ==
    CHOOSE q \in SetOf(initial) :
        FileOf(q.position) = x /\ RankOf(q.position) = y

Nearest(d) ==
    LET k == CHOOSE n \in Ray(d) : \A m \in Ray(d) : n <= m
    IN  PieceAt(SelfX + k * d[1], SelfY + k * d[2])

\* C14: for a bishop, rook or queen every returned capture is made by the
\* piece itself and lies in one of its slide directions; in each direction
\* there is one capture, of the nearest piece, if that piece is of the other
\* color, and none if it is of the same color or the ray is empty.
C14_SlideBlocking ==
    CapturesOf({Bishop, Rook, Queen}) =>
        /\ \A j \in 1..Len(probe.result) :
              /\ probe.result[j].attacker = probe.self
              /\ \E d \in ChessSteps(Self.type, Self.color) : j \in InDirection(d)
        /\ \A d \in ChessSteps(Self.type, Self.color) :
              IF Ray(d) # {} /\ Nearest(d).color # Self.color
              THEN /\ Cardinality(InDirection(d)) = 1
                   /\ \A j \in InDirection(d) : Targets[j] = Nearest(d)
              ELSE InDirection(d) = {}

\* A sliding piece with a piece of its color nearest in a direction and a
\* piece of the other color behind it.
C14_Witness ==
    /\ CapturesOf({Bishop, Rook, Queen})
    /\ \E d \in ChessSteps(Self.type, Self.color) :
          /\ Cardinality(Ray(d)) = 2
          /\ Nearest(d).color = Self.color
          /\ \E q \in SetOf(initial) : q.color # Self.color

\* The pieces of the other color one step of the piece's type away.
JumpTargets ==
    { q \in SetOf(initial) :
        /\ q.color # Self.color
        /\ \E d \in ChessSteps(Self.type, Self.color) :
              /\ FileOf(q.position) = SelfX + d[1]
              /\ RankOf(q.position) = SelfY + d[2] }

\* C15: for a king, knight or pawn the returned captures are made by the
\* piece itself and their targets are, each once, the pieces of the other
\* color that stand one of its jumps away, whatever stands in between; a
\* knight on a1 captures on b3 and c2 only.
C15_JumpCaptures ==
    CapturesOf({King, Knight, Pawn}) =>
        /\ \A j \in 1..Len(probe.result) : probe.result[j].attacker = probe.self
        /\ SetOf(Targets) = JumpTargets
        /\ Len(Targets) = Cardinality(JumpTargets)
        /\ (Self.type = Knight /\ Self.position = Square(1, 1))
              => \A j \in 1..Len(Targets) :
                    Targets[j].position \in {Square(2, 3), Square(3, 2)}

\* The knight on a1 has captured on b3 and on c2.
C15_Witness ==
    /\ CapturesOf({Knight})
    /\ Self.position = Square(1, 1)
    /\ Len(probe.result) = 2

\* C16: every capture returned for a White pawn on (x, y) has its target on
\* (x-1, y+1) or (x+1, y+1), and every capture returned for a Black pawn has
\* its target on (x-1, y-1) or (x+1, y-1).
C16_PawnDirection ==
    CapturesOf({Pawn}) =>
        \A j \in 1..Len(Targets) :
            /\ FileOf(Targets[j].position) \in {SelfX - 1, SelfX + 1}
            /\ RankOf(Targets[j].position)
                 = (IF Self.color = White THEN SelfY + 1 ELSE SelfY - 1)

\* A Black pawn has a capture.
C16_Witness ==
    /\ CapturesOf({Pawn})
    /\ Self.color = Black
    /\ Len(probe.result) >= 1

-----------------------------------------------------------------------------
(* findPiece alone: one lookup on a piece list in which pieces may share a  *)
(* position, for the position of a pool piece or for the empty square a8.    *)

FindLists == UNION { [1..n -> Pool] : n \in 0..MaxPieces }

InitFind ==
    /\ initial \in FindLists
    /\ heap = initial
    /\ \E position \in { q.position : q \in Pool } \cup { Square(1, 8) } :
          probe = [op       |-> "findPiece",
                   position |-> position,
                   done     |-> FALSE,
                   result   |-> NullPiece]
    /\ stack = << >>
    /\ solutionsCount = 0
    /\ deadEndCount = 0
    /\ console = << >>
    /\ pc = "probe"

\* board.findPiece( position )
findPieceCall ==
    /\ probe.op = "findPiece" /\ ~probe.done
    /\ probe' = [probe EXCEPT
                    !.result = findPiece(heap, [k \in 1..Len(heap) |-> k],
                                         probe.position),
                    !.done = TRUE]
    /\ UNCHANGED <<initial, heap, stack, solutionsCount, deadEndCount, console, pc>>

NextFind == findPieceCall

SpecFind == InitFind /\ [][NextFind]_vars

\* The places of the list that hold a piece at the position looked up.
Matches == { k \in 1..Len(initial) : initial[k].position = probe.position }

\* C17 as stated: findPiece returns null when no piece is at the position,
\* and otherwise the first piece of the list at that position.
C17_AsStated ==
    (probe.op = "findPiece" /\ probe.done) =>
        IF Matches = {} THEN probe.result = NullPiece
        ELSE /\ probe.result \in Matches
             /\ \A k \in Matches : probe.result <= k

-----------------------------------------------------------------------------
(* calculatePosition alone: one call for a square of the board, a move of   *)
(* a move table and a multiplier from 0 to 7.                                *)

AllMoves ==
    UNION { SetOf(moveOptions(type, color)) : type \in PieceType, color \in Color }

\* The position strings of the 64 squares, by the character codes of the
\* letters a-h and the digits 1-8.
FileLetters == << 97, 98, 99, 100, 101, 102, 103, 104 >>
RankDigits == << 49, 50, 51, 52, 53, 54, 55, 56 >>
Label(x, y) == << FileLetters[x], RankDigits[y] >>
Labels == { Label(x, y) : x \in 1..8, y \in 1..8 }

InitPosition ==
    /\ initial = << >>
    /\ heap = << >>
    /\ \E start \in Labels, move \in AllMoves, multiplier \in 0..MaxSlide :
          probe = [op         |-> "calculatePosition",
                   start      |-> start,
                   move       |-> move,
                   multiplier |-> multiplier,
                   done       |-> FALSE,
                   result     |-> NullPosition]
    /\ stack = << >>
    /\ solutionsCount = 0
    /\ deadEndCount = 0
    /\ console = << >>
    /\ pc = "probe"

\* calculatePosition( start, move, multiplier )
calculatePositionCall ==
    /\ probe.op = "calculatePosition" /\ ~probe.done
    /\ probe' = [probe EXCEPT
                    !.result = calculatePosition(probe.start, probe.move,
                                                 probe.multiplier),
                    !.done = TRUE]
    /\ UNCHANGED <<initial, heap, stack, solutionsCount, deadEndCount, console, pc>>

NextPosition == calculatePositionCall

SpecPosition == InitPosition /\ [][NextPosition]_vars

PositionDone == probe.op = "calculatePosition" /\ probe.done

\* The file and rank of the start square, by its place among the letters and
\* digits, and the file and rank the move leads to.
StartX == CHOOSE x \in 1..8 : FileLetters[x] = probe.start[1]
StartY == CHOOSE y \in 1..8 : RankDigits[y] = probe.start[2]
EndX == StartX + probe.multiplier * probe.move.directionX
EndY == StartY + probe.multiplier * probe.move.directionY

\* C18: calculatePosition returns null exactly when x + k*dx or y + k*dy is
\* outside 1..8, and otherwise the position string of (x + k*dx, y + k*dy).
C18_OffsetAndBounds ==
    PositionDone =>
        IF EndX \in 1..8 /\ EndY \in 1..8
        THEN probe.result = Label(EndX, EndY)
        ELSE probe.result = NullPosition

\* A call that left the board, on the file below a or the rank below 1.
C18_Witness ==
    PositionDone /\ probe.result = NullPosition /\ (EndX = 0 \/ EndY = 0)

\* C19: with multiplier 0 calculatePosition returns the start position
\* itself, for every square and every move.
C19_ZeroOffset ==
    (PositionDone /\ probe.multiplier = 0) => probe.result = probe.start

\* A call with multiplier 0 for h8 has returned h8.
C19_Witness ==
    /\ PositionDone /\ probe.multiplier = 0
    /\ probe.start = Label(8, 8) /\ probe.result = Label(8, 8)

-----------------------------------------------------------------------------
(* Survivor of a solution.                                                   *)

\* The colour that makes capture number N - 1 on a board of N pieces.
SurvivorColor == IF Len(initial) % 2 = 0 THEN White ELSE Black

\* C20: on a board of N >= 2 pieces, the single piece of a solved board is
\* the attacker of the last capture, standing on the last target's square,
\* and is White for even N and Black for odd N; every printed solution ends
\* with a capture by that colour; and a board with no piece of that colour
\* has no solution.
C20_SurvivorParity ==
    Len(initial) >= 2 =>
        /\ \A i \in 1..Len(stack) :
              Len(stack[i].pieces) = 1 =>
                 /\ Len(stack[i].history) = Len(initial) - 1
                 /\ LET last == stack[i].history[Len(stack[i].history)]
                        survivor == heap[stack[i].pieces[1]]
                    IN  /\ survivor.type = heap[last.attacker].type
                        /\ survivor.color = heap[last.attacker].color
                        /\ survivor.position = heap[last.target].position
                        /\ survivor.color = SurvivorColor
        /\ \A s \in 1..Len(ReportedLines) :
              /\ Len(ReportedLines[s]) = Len(initial) - 1
              /\ ReportedLines[s][Len(initial) - 1].attacker.color = SurvivorColor
        /\ (\A k \in 1..Len(initial) : initial[k].color # SurvivorColor)
              => solutionsCount = 0

\* A second solution of a three-piece board is reached, its survivor Black,
\* after a first one was printed.
C20_Witness ==
    /\ Running /\ Len(initial) = 3
    /\ Len(Top.pieces) = 1 /\ heap[Top.pieces[1]].color = Black
    /\ Len(Reported) >= 1

====
